---- MODULE Spec2Model ----
(***************************************************************************)
(* PostgreSQL spike analysis: analyze_pg_spike.py (single server, normal   *)
(* vs spike period) and compare_leader_replica.py (pg00 and pg01, each     *)
(* normal vs spike).                                                       *)
(*                                                                         *)
(* A snapshot and a query observation are JSON objects: functions from the *)
(* field names that are present to their values, so that dict.get(k, d)    *)
(* and dict[k] (KeyError) behave as in the code.  Text is a sequence of    *)
(* one-character strings.  Numbers are naturals; statistics.mean and the   *)
(* divisions are exact rationals <<numerator, denominator>> in lowest      *)
(* terms (the code computes their float roundings).                        *)
(***************************************************************************)
EXTENDS Integers, Sequences, FiniteSets, TLC

VARIABLES prog, files, pc, snaps, metrics, report, table, output, err

vars == <<prog, files, pc, snaps, metrics, report, table, output, err>>

(***************************************************************************)
(* Program constants                                                       *)
(***************************************************************************)
LongQuerySec == 10

SignatureChars == 200

PreviewChars == 150

PatternWords == 15

TopLongQueries == 10

TopNewApps == 15

TopGoneApps == 10

TopLockApps == 5

TopCommon == 10

LRTop == 5

LoadShiftPct == 10

Whitespace == {" ", "\t"}

LockTypes == <<"transactionid", "tuple", "relation">>

(***************************************************************************)
(* Sequences                                                               *)
(***************************************************************************)
Min2(a, b) == IF a <= b THEN a ELSE b

Take(s, n) == SubSeq(s, 1, Min2(n, Len(s)))

Range(s) == {s[i] : i \in DOMAIN s}

\* sum(s), by halves
RECURSIVE SumSeq(_)
SumSeq(s) ==
    IF s = <<>> THEN 0
    ELSE IF Len(s) = 1 THEN s[1]
    ELSE LET half == Len(s) \div 2
         IN  SumSeq(SubSeq(s, 1, half)) + SumSeq(SubSeq(s, half + 1, Len(s)))

\* min(s) and max(s) of a non-empty list
MinSeq(s) == CHOOSE x \in Range(s) : \A y \in Range(s) : x <= y

MaxSeq(s) == CHOOSE x \in Range(s) : \A y \in Range(s) : x >= y

\* the concatenation of the lists of ss, by halves
RECURSIVE Flatten(_)
Flatten(ss) ==
    IF ss = <<>> THEN <<>>
    ELSE IF Len(ss) = 1 THEN ss[1]
    ELSE LET half == Len(ss) \div 2
         IN  Flatten(SubSeq(ss, 1, half)) \o Flatten(SubSeq(ss, half + 1, Len(ss)))

Map(s, F(_)) == [i \in DOMAIN s |-> F(s[i])]

\* list.sort(key=..., reverse=True) and sorted(..., reverse=True): stable, so
\* an element comes after those of a greater key and after the earlier ones of
\* an equal key.
SortDesc(s, Key(_)) ==
    LET Before(i) == {j \in DOMAIN s : \/ Key(s[j]) > Key(s[i])
                                       \/ Key(s[j]) = Key(s[i]) /\ j < i}
    IN  [p \in DOMAIN s |-> s[CHOOSE i \in DOMAIN s : Cardinality(Before(i)) = p - 1]]

\* sorted(s)
SortAsc(s) ==
    LET Before(i) == {j \in DOMAIN s : s[j] < s[i] \/ (s[j] = s[i] /\ j < i)}
    IN  [p \in DOMAIN s |-> s[CHOOSE i \in DOMAIN s : Cardinality(Before(i)) = p - 1]]

(***************************************************************************)
(* Exact rationals                                                         *)
(***************************************************************************)
Abs(n) == IF n < 0 THEN -n ELSE n

RECURSIVE GCD(_, _)
GCD(a, b) == IF b = 0 THEN a ELSE GCD(b, a % b)

\* n / d for d > 0, in lowest terms
Rat(n, d) == LET g == GCD(Abs(n), d) IN <<n \div g, d \div g>>

RatSub(a, b) == Rat(a[1] * b[2] - b[1] * a[2], a[2] * b[2])

\* a / b for b > 0
RatDiv(a, b) == Rat(a[1] * b[2], a[2] * b[1])

RatTimes(a, k) == Rat(a[1] * k, a[2])

RatAbs(a) == <<Abs(a[1]), a[2]>>

RatGt(a, b) == a[1] * b[2] > b[1] * a[2]

RatZero == <<0, 1>>

\* statistics.mean of a non-empty list
Mean(s) == Rat(SumSeq(s), Len(s))

\* statistics.median of a non-empty list
Median(s) ==
    LET t == SortAsc(s)
        n == Len(s)
    IN  IF n % 2 = 1 THEN Rat(t[(n + 1) \div 2], 1)
        ELSE Rat(t[n \div 2] + t[n \div 2 + 1], 2)

(***************************************************************************)
(* dict.get, str.split, str.join, collections.Counter                      *)
(***************************************************************************)
Get(d, k, default) == IF k \in DOMAIN d THEN d[k] ELSE default

\* str.split(): the maximal runs of non-whitespace characters
RECURSIVE SplitFrom(_, _)
SplitFrom(s, word) ==
    IF s = <<>> THEN (IF word = <<>> THEN <<>> ELSE <<word>>)
    ELSE IF Head(s) \in Whitespace
         THEN (IF word = <<>> THEN <<>> ELSE <<word>>) \o SplitFrom(Tail(s), <<>>)
         ELSE SplitFrom(Tail(s), Append(word, Head(s)))

Split(s) == SplitFrom(s, <<>>)

\* ' '.join(words)
RECURSIVE Join(_)
Join(words) ==
    IF words = <<>> THEN <<>>
    ELSE IF Len(words) = 1 THEN words[1]
    ELSE words[1] \o <<" ">> \o Join(Tail(words))

\* Counter(list): the keys in first-seen order, each with its count
Counter(s) ==
    LET firsts == {i \in DOMAIN s : \A j \in 1..(i - 1) : s[j] # s[i]}
        Nth(n) == CHOOSE i \in firsts : Cardinality({j \in firsts : j < i}) = n - 1
    IN  [n \in 1..Cardinality(firsts) |->
            [key |-> s[Nth(n)], n |-> Cardinality({j \in DOMAIN s : s[j] = s[Nth(n)]})]]

Keys(c) == {c[i].key : i \in DOMAIN c}

\* counter[k] for a key that is present
CountOf(c, k) == c[CHOOSE i \in DOMAIN c : c[i].key = k].n

\* Counter.most_common(n): by count, descending; equal counts in first-seen order
CountKey(e) == e.n

\* (mutant: the first keys seen instead of the most common ones)
FirstSeen(c, n) == Take(c, n)

MostCommon(c, n) == Take(SortDesc(c, CountKey), n)

(***************************************************************************)
(* Results of a call: a value, or an exception that was raised             *)
(***************************************************************************)
Ok(v) == [exc |-> "none", val |-> v]

Raised(e) == [exc |-> e]

NoneValue == [none |-> TRUE]

(***************************************************************************)
(* analyze_pg_spike.py: get_query_signature, extract_metrics               *)
(***************************************************************************)
RequiredFields == <<"load_avg_1m", "load_avg_5m", "load_avg_15m", "active_query_count">>

HasAll(snapshots, k) == \A i \in DOMAIN snapshots : k \in DOMAIN snapshots[i]

Column(snapshots, k) == [i \in DOMAIN snapshots |-> snapshots[i][k]]

QueriesOf(snapshot) == Get(snapshot, "queries", <<>>)

\* (mutant: only the last snapshot's observations are kept)
ObservationsOfLast(snapshots) ==
    IF snapshots = <<>> THEN <<>> ELSE QueriesOf(snapshots[Len(snapshots)])

\* the observations in the order of the two nested loops
Observations(snapshots) == Flatten([i \in DOMAIN snapshots |-> QueriesOf(snapshots[i])])

WaitEvent(query) == Get(query, "wait_event", "unknown")

WaitType(query) == Get(query, "wait_event_type", "unknown")

Duration(query) == Get(query, "query_duration_sec", 0)

TransactionDuration(query) == Get(query, "transaction_duration_sec", 0)

App(query) == Get(query, "application_name", "unknown")

\* (mutant: the key is spelled 'username')
UserByUsername(query) == Get(query, "username", "unknown")

User(query) == Get(query, "usename", "unknown")

Preview(query) == Get(query, "query_preview", <<>>)

\* its result when `preview` is empty is None, written <<>>: the caller only
\* tests its truth, and the empty signature is as false as None
get_query_signature(query) ==
    LET preview == Preview(query)
    IN  IF preview = <<>> THEN <<>> ELSE Join(Split(Take(preview, SignatureChars)))

QueryPattern(query) == Join(Take(Split(Preview(query)), PatternWords))

\* (mutant: >= for >)
IsLongOrEqual(query) == Duration(query) >= LongQuerySec

IsLong(query) == Duration(query) > LongQuerySec

\* (mutant: the comparison ignores case)
IsLockAnyCase(query) == WaitType(query) \in {"Lock", "lock", "LOCK"}

IsLock(query) == WaitType(query) = "Lock"

LongEntry(query) ==
    [duration |-> Duration(query), app |-> App(query), wait |-> WaitEvent(query),
     wait_type |-> WaitType(query), preview |-> Take(Preview(query), PreviewChars)]

LockEntry(query) ==
    [duration |-> Duration(query), app |-> App(query), wait |-> WaitEvent(query),
     preview |-> Take(Preview(query), PreviewChars)]

HasPreview(query) == Preview(query) # <<>>

Stats(column) ==
    [min |-> MinSeq(column), max |-> MaxSeq(column), avg |-> Mean(column),
     median |-> Median(column)]

extract_metrics(snapshots) ==
    IF \E i \in DOMAIN RequiredFields : ~HasAll(snapshots, RequiredFields[i])
    THEN Raised("KeyError")
    ELSE IF snapshots = <<>> THEN Raised("ValueError")
    ELSE LET obs == Observations(snapshots)
             withPreview == SelectSeq(obs, HasPreview)
         IN  Ok([snapshot_count |-> Len(snapshots),
                 load |-> [w \in {"1m", "5m", "15m"} |->
                              Stats(Column(snapshots, "load_avg_" \o w))],
                 active_queries |-> Stats(Column(snapshots, "active_query_count")),
                 wait_events |-> Counter(Map(obs, WaitEvent)),
                 wait_event_types |-> Counter(Map(obs, WaitType)),
                 query_durations |-> Map(obs, Duration),
                 transaction_durations |-> Map(obs, TransactionDuration),
                 applications |-> Counter(Map(obs, App)),
                 users |-> Counter(Map(obs, User)),
                 query_patterns |-> Counter(Map(withPreview, QueryPattern)),
                 query_signatures |->
                     {get_query_signature(withPreview[i]) : i \in DOMAIN withPreview}
                         \ {<<>>},
                 total_queries_observed |-> Len(Map(obs, Duration)),
                 long_queries |-> Map(SelectSeq(obs, IsLong), LongEntry),
                 lock_waits |-> Map(SelectSeq(obs, IsLock), LockEntry)])

(***************************************************************************)
(* compare_leader_replica.py: extract_metrics                              *)
(***************************************************************************)
LRLongEntry(query) ==
    [duration |-> Duration(query), app |-> App(query), wait |-> WaitEvent(query),
     wait_type |-> WaitType(query)]

LRLockEntry(query) ==
    [duration |-> Duration(query), app |-> App(query), wait |-> WaitEvent(query)]

lr_extract_metrics(snapshots) ==
    IF snapshots = <<>> THEN Ok(NoneValue)
    ELSE IF ~HasAll(snapshots, "load_avg_1m") \/ ~HasAll(snapshots, "active_query_count")
    THEN Raised("KeyError")
    ELSE LET obs == Observations(snapshots)
             query_durations == Map(obs, Duration)
         IN  Ok([snapshot_count |-> Len(snapshots),
                 load_avg |-> Mean(Column(snapshots, "load_avg_1m")),
                 active_queries_avg |-> Mean(Column(snapshots, "active_query_count")),
                 total_queries |-> Len(query_durations),
                 wait_event_types |-> Counter(Map(obs, WaitType)),
                 wait_events |-> Counter(Map(obs, WaitEvent)),
                 applications |-> Counter(Map(obs, App)),
                 long_queries |-> Map(SelectSeq(obs, IsLong), LRLongEntry),
                 lock_waits |-> Map(SelectSeq(obs, IsLock), LRLockEntry),
                 avg_duration |->
                     IF query_durations # <<>> THEN Mean(query_durations) ELSE RatZero])

(***************************************************************************)
(* analyze_pg_spike.py: compare_metrics                                    *)
(***************************************************************************)
\* (diff / base) * 100 if base > 0 else 0
GuardedPct(diff, base) ==
    IF RatGt(base, RatZero) THEN RatTimes(RatDiv(diff, base), 100) ELSE RatZero

\* (count / total * 100) if total > 0 else 0
ShareOf(count, total) == IF total > 0 THEN Rat(count * 100, total) ELSE RatZero

\* (mutant: the sort is ascending, reverse=True forgotten)
DurationKeyAscending(q) == 0 - q.duration

DurationKey(q) == q.duration

TopTable(counter, total, n) ==
    LET top == MostCommon(counter, n)
    IN  [i \in DOMAIN top |->
            [key |-> top[i].key, count |-> top[i].n, pct |-> ShareOf(top[i].n, total)]]

\* (mutant: sorted without reverse=True)
RECURSIVE SortedOrdersAscending(_, _)
SortedOrdersAscending(apps, counter) ==
    IF apps = {} THEN {<<>>}
    ELSE LET low == {a \in apps :
                        \A b \in apps : CountOf(counter, a) <= CountOf(counter, b)}
         IN  UNION {{<<[app |-> a, count |-> CountOf(counter, a)]>> \o rest :
                        rest \in SortedOrdersAscending(apps \ {a}, counter)} : a \in low}

\* A list built by iterating over the set `apps` and then sorted by count,
\* descending (stable): the iteration order of a set of strings is not fixed,
\* so every arrangement of `apps` by non-increasing count can come out.
RECURSIVE SortedOrders(_, _)
SortedOrders(apps, counter) ==
    IF apps = {} THEN {<<>>}
    ELSE LET top == {a \in apps :
                        \A b \in apps : CountOf(counter, a) >= CountOf(counter, b)}
         IN  UNION {{<<[app |-> a, count |-> CountOf(counter, a)]>> \o rest :
                        rest \in SortedOrders(apps \ {a}, counter)} : a \in top}

\* (mutant: the lock waits are not grouped by their wait event)
LocksOfAnyType(lock_waits, lock_type) ==
    IF \E i \in DOMAIN lock_waits : lock_waits[i].wait = lock_type THEN lock_waits
    ELSE <<>>

LocksOfType(lock_waits, lock_type) ==
    SelectSeq(lock_waits, LAMBDA lock : lock.wait = lock_type)

AppOf(entry) == entry.app

LockBreakdownOf(lock_waits, lock_type) ==
    LET locks == LocksOfType(lock_waits, lock_type)
        by_app == MostCommon(Counter(Map(locks, AppOf)), TopLockApps)
    IN  [lock_type |-> lock_type, occurrences |-> Len(locks),
         apps |-> [i \in DOMAIN by_app |->
                      [app |-> by_app[i].key, count |-> by_app[i].n,
                       pct |-> Rat(by_app[i].n * 100, Len(locks))]]]

LockBreakdown(lock_waits) ==
    LET present == SelectSeq(LockTypes, LAMBDA t : LocksOfType(lock_waits, t) # <<>>)
    IN  [i \in DOMAIN present |-> LockBreakdownOf(lock_waits, present[i])]

\* (mutant: >= for >)
LongGrowthOrEqual(normal_count, spike_count) == 2 * spike_count >= 3 * normal_count

\* len(spike) > len(normal) * 1.5
LongGrowth(normal_count, spike_count) == 2 * spike_count > 3 * normal_count

\* (mutant: >= for >)
LockGrowthOrEqual(normal_count, spike_count) == 5 * spike_count >= 6 * normal_count

\* len(spike) > len(normal) * 1.2
LockGrowth(normal_count, spike_count) == 5 * spike_count > 6 * normal_count

LoadShift(load_pct) == RatGt(RatAbs(load_pct), <<LoadShiftPct, 1>>)

Findings(normal, spike, sorted_long, load_pct, only_spike_apps) ==
    LET long_finding ==
            IF LongGrowth(Len(normal.long_queries), Len(spike.long_queries))
            THEN <<[rule |-> "long_queries", normal |-> Len(normal.long_queries),
                    spike |-> Len(spike.long_queries)]>>
            ELSE <<>>
        lock_finding ==
            IF LockGrowth(Len(normal.lock_waits), Len(spike.lock_waits))
            THEN <<[rule |-> "lock_waits", normal |-> Len(normal.lock_waits),
                    spike |-> Len(spike.lock_waits)]>>
            ELSE <<>>
        load_finding ==
            IF LoadShift(load_pct)
            THEN <<[rule |-> "load",
                    direction |-> IF RatGt(load_pct, RatZero) THEN "increased"
                                  ELSE "decreased",
                    pct |-> RatAbs(load_pct)]>>
            ELSE <<>>
        apps_finding ==
            IF only_spike_apps # {}
            THEN <<[rule |-> "new_apps", count |-> Cardinality(only_spike_apps)]>>
            ELSE <<>>
        culprit_finding ==
            IF sorted_long # <<>>
            THEN LET top_culprit == MostCommon(Counter(Map(sorted_long, AppOf)), 1)[1]
                 IN  <<[rule |-> "culprit", app |-> top_culprit.key,
                        count |-> top_culprit.n]>>
            ELSE <<>>
        findings == long_finding \o lock_finding \o load_finding \o apps_finding
                        \o culprit_finding
    IN  IF findings # <<>> THEN findings ELSE <<[rule |-> "none"]>>

Both(normal_signatures, spike_signatures) == normal_signatures \cap spike_signatures

\* (mutant: the operands are swapped)
OnlyInSpikeSwapped(normal_signatures, spike_signatures) ==
    normal_signatures \ spike_signatures

OnlyInSpike(normal_signatures, spike_signatures) == spike_signatures \ normal_signatures

OnlyInNormal(normal_signatures, spike_signatures) == normal_signatures \ spike_signatures

\* The report's data, section by section.  new_order, gone_order and shown are
\* what the iteration over the three Python sets yields.
compare_metrics(normal, spike, new_order, gone_order, shown) ==
    LET load_diff == RatSub(spike.load["1m"].avg, normal.load["1m"].avg)
        load_pct == GuardedPct(load_diff, normal.load["1m"].avg)
        query_diff == RatSub(spike.active_queries.avg, normal.active_queries.avg)
        query_pct == GuardedPct(query_diff, normal.active_queries.avg)
        sorted_long == SortDesc(spike.long_queries, DurationKey)
        only_spike_apps == Keys(spike.applications) \ Keys(normal.applications)
        only_normal_apps == Keys(normal.applications) \ Keys(spike.applications)
    IN  [summary |->
            [normal_snapshots |-> normal.snapshot_count,
             normal_queries |-> normal.total_queries_observed,
             spike_snapshots |-> spike.snapshot_count,
             spike_queries |-> spike.total_queries_observed,
             normal_signatures |-> Cardinality(normal.query_signatures),
             spike_signatures |-> Cardinality(spike.query_signatures),
             normal_long |-> Len(normal.long_queries),
             spike_long |-> Len(spike.long_queries),
             normal_locks |-> Len(normal.lock_waits),
             spike_locks |-> Len(spike.lock_waits)],
         load_diff |-> load_diff,
         load_pct |-> load_pct,
         query_diff |-> query_diff,
         query_pct |-> query_pct,
         duration |->
            IF normal.query_durations # <<>> /\ spike.query_durations # <<>>
            THEN LET normal_avg == Mean(normal.query_durations)
                     spike_avg == Mean(spike.query_durations)
                     duration_diff == RatSub(spike_avg, normal_avg)
                 IN  <<[normal_avg |-> normal_avg, spike_avg |-> spike_avg,
                        normal_median |-> Median(normal.query_durations),
                        spike_median |-> Median(spike.query_durations),
                        normal_max |-> MaxSeq(normal.query_durations),
                        spike_max |-> MaxSeq(spike.query_durations),
                        duration_diff |-> RatAbs(duration_diff),
                        duration_pct |-> GuardedPct(duration_diff, normal_avg)]>>
            ELSE <<>>,
         long_queries |-> Take(sorted_long, TopLongQueries),
         lock_types |-> LockBreakdown(spike.lock_waits),
         both |-> Both(normal.query_signatures, spike.query_signatures),
         only_in_spike |-> OnlyInSpike(normal.query_signatures, spike.query_signatures),
         only_in_normal |-> OnlyInNormal(normal.query_signatures, spike.query_signatures),
         new_queries |-> shown,
         only_spike_apps |-> only_spike_apps,
         only_normal_apps |-> only_normal_apps,
         spike_app_counts |-> Take(new_order, TopNewApps),
         normal_app_counts |-> Take(gone_order, TopGoneApps),
         top_apps |->
            [normal |-> TopTable(normal.applications, normal.total_queries_observed,
                                 TopCommon),
             spike |-> TopTable(spike.applications, spike.total_queries_observed,
                                TopCommon)],
         top_wait_types |->
            [normal |-> TopTable(normal.wait_event_types,
                                 normal.total_queries_observed, TopCommon),
             spike |-> TopTable(spike.wait_event_types,
                                spike.total_queries_observed, TopCommon)],
         top_wait_events |->
            [normal |-> TopTable(normal.wait_events, normal.total_queries_observed,
                                 TopCommon),
             spike |-> TopTable(spike.wait_events, spike.total_queries_observed,
                                TopCommon)],
         findings |-> Findings(normal, spike, sorted_long, load_pct, only_spike_apps)]

(***************************************************************************)
(* compare_leader_replica.py: compare_changes, and the table of main       *)
(***************************************************************************)
IsNone(m) == "none" \in DOMAIN m

\* (count / total) * 100, unguarded, for every entry of the table
LRTable(counter, total, n) ==
    LET top == MostCommon(counter, n)
    IN  [i \in DOMAIN top |->
            [key |-> top[i].key, count |-> top[i].n, pct |-> Rat(top[i].n * 100, total)]]

\* The divisions of compare_changes that no condition guards, in the order of
\* execution (lines 75, 84, 124, 129, 152, 169, 180): TRUE where the divisor is 0.
UnguardedDivisions(normal, spike) ==
    <<normal.load_avg = RatZero,
      normal.active_queries_avg = RatZero,
      normal.wait_event_types # <<>> /\ normal.total_queries = 0,
      spike.wait_event_types # <<>> /\ spike.total_queries = 0,
      spike.applications # <<>> /\ spike.total_queries = 0,
      Keys(spike.applications) \ Keys(normal.applications) # {}
          /\ spike.total_queries = 0,
      Keys(normal.applications) \ Keys(spike.applications) # {}
          /\ normal.total_queries = 0>>

compare_changes(normal, spike, new_order, gone_order) ==
    IF IsNone(spike) \/ IsNone(normal) THEN Raised("TypeError")
    ELSE IF \E i \in DOMAIN UnguardedDivisions(normal, spike) :
                UnguardedDivisions(normal, spike)[i]
    THEN Raised("ZeroDivisionError")
    ELSE LET load_change == RatSub(spike.load_avg, normal.load_avg)
             query_change == RatSub(spike.active_queries_avg, normal.active_queries_avg)
             spike_apps == MostCommon(spike.applications, TopCommon)
         IN  Ok([load_change |-> load_change,
                 load_pct |-> RatTimes(RatDiv(load_change, normal.load_avg), 100),
                 query_change |-> query_change,
                 query_pct |->
                     RatTimes(RatDiv(query_change, normal.active_queries_avg), 100),
                 long_normal_pct |->
                     ShareOf(Len(normal.long_queries), normal.total_queries),
                 long_spike_pct |->
                     ShareOf(Len(spike.long_queries), spike.total_queries),
                 long_queries |->
                     Take(SortDesc(spike.long_queries, DurationKey), LRTop),
                 lock_normal_pct |->
                     ShareOf(Len(normal.lock_waits), normal.total_queries),
                 lock_spike_pct |->
                     ShareOf(Len(spike.lock_waits), spike.total_queries),
                 lock_types |->
                     LRTable(Counter(Map(spike.lock_waits, LAMBDA l : l.wait)),
                             Len(spike.lock_waits), LRTop),
                 wait_types |->
                     [normal |-> LRTable(normal.wait_event_types,
                                         normal.total_queries, LRTop),
                      spike |-> LRTable(spike.wait_event_types,
                                        spike.total_queries, LRTop)],
                 top_apps |->
                     [i \in DOMAIN spike_apps |->
                         [app |-> spike_apps[i].key, count |-> spike_apps[i].n,
                          pct |-> Rat(spike_apps[i].n * 100, spike.total_queries),
                          normal_pct |->
                              ShareOf(IF spike_apps[i].key \in Keys(normal.applications)
                                      THEN CountOf(normal.applications, spike_apps[i].key)
                                      ELSE 0,
                                      normal.total_queries)]],
                 new_apps |-> Keys(spike.applications) \ Keys(normal.applications),
                 disappeared_apps |->
                     Keys(normal.applications) \ Keys(spike.applications),
                 new_app_counts |-> Take(new_order, TopNewApps),
                 disappeared_counts |-> Take(gone_order, TopGoneApps)])

\* abs(a) > abs(b) * 1.2
MoreImpacted(a, b) == RatGt(RatTimes(RatAbs(a), 5), RatTimes(RatAbs(b), 6))

\* main, lines 249-292: the quick comparison table and the key findings
QuickComparison(pg00_normal, pg00_spike, pg01_normal, pg01_spike) ==
    IF pg00_normal.load_avg = RatZero \/ pg01_normal.load_avg = RatZero
    THEN Raised("ZeroDivisionError")
    ELSE LET pg00_load_change == RatSub(pg00_spike.load_avg, pg00_normal.load_avg)
             pg00_load_pct == RatTimes(RatDiv(pg00_load_change, pg00_normal.load_avg), 100)
             pg01_load_change == RatSub(pg01_spike.load_avg, pg01_normal.load_avg)
             pg01_load_pct == RatTimes(RatDiv(pg01_load_change, pg01_normal.load_avg), 100)
             pg00_long == Len(pg00_spike.long_queries)
             pg01_long == Len(pg01_spike.long_queries)
         IN  Ok([pg00_load_change |-> pg00_load_change,
                 pg00_load_pct |-> pg00_load_pct,
                 pg01_load_change |-> pg01_load_change,
                 pg01_load_pct |-> pg01_load_pct,
                 pg00_q_change |-> RatSub(pg00_spike.active_queries_avg,
                                          pg00_normal.active_queries_avg),
                 pg01_q_change |-> RatSub(pg01_spike.active_queries_avg,
                                          pg01_normal.active_queries_avg),
                 pg00_long_change |-> pg00_long - Len(pg00_normal.long_queries),
                 pg01_long_change |-> pg01_long - Len(pg01_normal.long_queries),
                 pg00_lock_change |->
                     Len(pg00_spike.lock_waits) - Len(pg00_normal.lock_waits),
                 pg01_lock_change |->
                     Len(pg01_spike.lock_waits) - Len(pg01_normal.lock_waits),
                 impacted |->
                     IF MoreImpacted(pg00_load_pct, pg01_load_pct) THEN "leader"
                     ELSE IF MoreImpacted(pg01_load_pct, pg00_load_pct) THEN "replica"
                     ELSE "both",
                 leader_only_locks |->
                     Len(pg00_spike.lock_waits) > 0 /\ Len(pg01_spike.lock_waits) = 0,
                 long_queries |->
                     IF pg00_long > pg01_long * 5 THEN "leader"
                     ELSE IF pg01_long > pg00_long THEN "replica"
                     ELSE "neither"])

(***************************************************************************)
(* The two programs.  `files` is what the input files hold; pc is the      *)
(* statement of main that runs next; a raised exception ends the run.      *)
(***************************************************************************)
Programs == {"analyze_pg_spike", "compare_leader_replica"}

FileOrder(p) ==
    IF p = "analyze_pg_spike" THEN <<"normal", "spike">>
    ELSE <<"pg00_normal", "pg00_spike", "pg01_normal", "pg01_spike">>

ServerOrder(p) == IF p = "analyze_pg_spike" THEN <<"db">> ELSE <<"pg00", "pg01">>

NormalOf(server) == IF server = "db" THEN "normal" ELSE server \o "_normal"

SpikeOf(server) == IF server = "db" THEN "spike" ELSE server \o "_spike"

At(step, i) == [at |-> step, i |-> i]

Done == At("done", 0)

Failed == At("failed", 0)

\* a slot that holds nothing yet, or one value
Unset == <<>>

Set(v) == <<v>>

Start(p, input) ==
    /\ prog = p
    /\ files = input
    /\ pc = IF p = "analyze_pg_spike" THEN At("load", 1) ELSE At("extract", 1)
    /\ snaps = [f \in Range(FileOrder(p)) |-> Unset]
    /\ metrics = [f \in Range(FileOrder(p)) |-> Unset]
    /\ report = [sv \in Range(ServerOrder(p)) |-> Unset]
    /\ table = Unset
    /\ output = Unset
    /\ err = "none"

Raise(exc) ==
    /\ err' = exc
    /\ pc' = Failed

\* analyze_pg_spike.main, lines 364 and 368: load_snapshots
MainLoad(i) ==
    /\ prog = "analyze_pg_spike"
    /\ pc = At("load", i)
    /\ LET f == FileOrder(prog)[i]
       IN  snaps' = [snaps EXCEPT ![f] = Set(files[f])]
    /\ pc' = IF i < Len(FileOrder(prog)) THEN At("load", i + 1) ELSE At("extract", 1)
    /\ UNCHANGED <<prog, files, metrics, report, table, output, err>>

\* analyze_pg_spike.main, lines 372 and 373: extract_metrics
MainExtract(i) ==
    /\ prog = "analyze_pg_spike"
    /\ pc = At("extract", i)
    /\ LET f == FileOrder(prog)[i]
           r == extract_metrics(snaps[f][1])
       IN  IF r.exc # "none"
           THEN Raise(r.exc) /\ UNCHANGED metrics
           ELSE /\ metrics' = [metrics EXCEPT ![f] = Set(r.val)]
                /\ pc' = IF i < Len(FileOrder(prog)) THEN At("extract", i + 1)
                         ELSE At("compare", 1)
                /\ UNCHANGED err
    /\ UNCHANGED <<prog, files, snaps, report, table, output>>

\* the at most 5 new signatures that list(only_in_spike)[:5] can yield
Shown(only_in_spike) ==
    {shown \in SUBSET only_in_spike :
        Cardinality(shown) = Min2(5, Cardinality(only_in_spike))}

\* analyze_pg_spike.main, line 376: compare_metrics, which sorts the spike
\* summary's long queries in place
MainCompare ==
    /\ prog = "analyze_pg_spike"
    /\ pc = At("compare", 1)
    /\ LET normal == metrics["normal"][1]
           spike == metrics["spike"][1]
       IN  /\ \E new_order \in SortedOrders(Keys(spike.applications)
                                               \ Keys(normal.applications),
                                           spike.applications),
                 gone_order \in SortedOrders(Keys(normal.applications)
                                                \ Keys(spike.applications),
                                            normal.applications),
                 shown \in Shown(OnlyInSpike(normal.query_signatures,
                                              spike.query_signatures)) :
                  report' = [report EXCEPT !["db"] =
                      Set(compare_metrics(normal, spike, new_order, gone_order, shown))]
           /\ metrics' = [metrics EXCEPT !["spike"] =
                  Set([spike EXCEPT !.long_queries = SortDesc(@, DurationKey)])]
    /\ pc' = At("write", 0)
    /\ UNCHANGED <<prog, files, snaps, table, output, err>>

\* analyze_pg_spike.main, lines 378-379
MainWrite ==
    /\ prog = "analyze_pg_spike"
    /\ pc = At("write", 0)
    /\ output' = Set(report["db"][1])
    /\ pc' = Done
    /\ UNCHANGED <<prog, files, snaps, metrics, report, table, err>>

\* compare_leader_replica.main, lines 227-230: extract_metrics(load_snapshots(...))
LRMainExtract(i) ==
    /\ prog = "compare_leader_replica"
    /\ pc = At("extract", i)
    /\ LET f == FileOrder(prog)[i]
           r == lr_extract_metrics(files[f])
       IN  IF r.exc # "none"
           THEN Raise(r.exc) /\ UNCHANGED metrics
           ELSE /\ metrics' = [metrics EXCEPT ![f] = Set(r.val)]
                /\ pc' = IF i < Len(FileOrder(prog)) THEN At("extract", i + 1)
                         ELSE At("compare", 1)
                /\ UNCHANGED err
    /\ UNCHANGED <<prog, files, snaps, report, table, output>>

AppsOf(m) == IF IsNone(m) THEN {} ELSE Keys(m.applications)

CounterOf(m) == IF IsNone(m) THEN <<>> ELSE m.applications

\* compare_leader_replica.main, lines 233 and 236: compare_changes
LRMainCompare(i) ==
    /\ prog = "compare_leader_replica"
    /\ pc = At("compare", i)
    /\ LET server == ServerOrder(prog)[i]
           normal == metrics[NormalOf(server)][1]
           spike == metrics[SpikeOf(server)][1]
       IN  \E new_order \in SortedOrders(AppsOf(spike) \ AppsOf(normal), CounterOf(spike)),
              gone_order \in SortedOrders(AppsOf(normal) \ AppsOf(spike), CounterOf(normal)) :
               LET r == compare_changes(normal, spike, new_order, gone_order)
               IN  IF r.exc # "none"
                   THEN Raise(r.exc) /\ UNCHANGED report
                   ELSE /\ report' = [report EXCEPT ![server] = Set(r.val)]
                        /\ pc' = IF i < Len(ServerOrder(prog)) THEN At("compare", i + 1)
                                 ELSE At("table", 0)
                        /\ UNCHANGED err
    /\ UNCHANGED <<prog, files, snaps, metrics, table, output>>

\* compare_leader_replica.main, lines 241-296
LRMainTable ==
    /\ prog = "compare_leader_replica"
    /\ pc = At("table", 0)
    /\ LET r == QuickComparison(metrics["pg00_normal"][1], metrics["pg00_spike"][1],
                                metrics["pg01_normal"][1], metrics["pg01_spike"][1])
       IN  IF r.exc # "none"
           THEN Raise(r.exc) /\ UNCHANGED table
           ELSE /\ table' = Set(r.val)
                /\ pc' = At("write", 0)
                /\ UNCHANGED err
    /\ UNCHANGED <<prog, files, snaps, metrics, report, output>>

\* compare_leader_replica.main, lines 298-306
LRMainWrite ==
    /\ prog = "compare_leader_replica"
    /\ pc = At("write", 0)
    /\ output' = Set([table |-> table[1], pg00 |-> report["pg00"][1],
                       pg01 |-> report["pg01"][1]])
    /\ pc' = Done
    /\ UNCHANGED <<prog, files, snaps, metrics, report, table, err>>

Next ==
    \/ \E i \in 1..2 : MainLoad(i)
    \/ \E i \in 1..2 : MainExtract(i)
    \/ MainCompare
    \/ MainWrite
    \/ \E i \in 1..4 : LRMainExtract(i)
    \/ \E i \in 1..2 : LRMainCompare(i)
    \/ LRMainTable
    \/ LRMainWrite

(***************************************************************************)
(* Input files                                                             *)
(***************************************************************************)
MaxSnapshots == 2

MaxObs == 2

Without(d, k) == [x \in DOMAIN d \ {k} |-> d[x]]

SnapshotOf(load, active) ==
    [load_avg_1m |-> load, load_avg_5m |-> load, load_avg_15m |-> load,
     active_query_count |-> active, queries |-> <<>>]

\* The period whose i-th snapshot is bases[i] with the next counts[i] of the
\* observations obs; where absent[i], the snapshot has no 'queries' at all.
PeriodFrom(bases, counts, obs, absent) ==
    [i \in DOMAIN bases |->
        LET before == SumSeq(SubSeq(counts, 1, i - 1))
        IN  IF absent[i] THEN Without(bases[i], "queries")
            ELSE [bases[i] EXCEPT !.queries = SubSeq(obs, before + 1, before + counts[i])]]

\* counts and absent describe a period of o observations
Splits(counts, absent, o) ==
    /\ SumSeq(counts) = o
    /\ \A i \in DOMAIN counts : absent[i] => counts[i] = 0

AnalyzeInput(normal, spike) == [normal |-> normal, spike |-> spike]

LRInput(pg00_normal, pg00_spike, pg01_normal, pg01_spike) ==
    [pg00_normal |-> pg00_normal, pg00_spike |-> pg00_spike,
     pg01_normal |-> pg01_normal, pg01_spike |-> pg01_spike]

PlainQuery ==
    [wait_event |-> "ClientRead", wait_event_type |-> "Client", query_duration_sec |-> 5,
     transaction_duration_sec |-> 6, application_name |-> "svc-a", usename |-> "app",
     query_preview |-> <<"S", " ", "1">>]

BusySnapshot == [SnapshotOf(2, 3) EXCEPT !.queries = <<PlainQuery>>]

BusyPeriod == <<BusySnapshot>>

(***************************************************************************)
(* Spec: runs over well-formed, degenerate (zero load, no active query, no *)
(* observation, no snapshot) and malformed (a required field missing)      *)
(* periods.                                                                *)
(***************************************************************************)
RunBases == {SnapshotOf(0, 3), SnapshotOf(2, 0), SnapshotOf(2, 3)}

Malformed == {Without(BusySnapshot, RequiredFields[i]) : i \in DOMAIN RequiredFields}

RunSnapshots ==
    {[b EXCEPT !.queries = qs] : b \in RunBases, qs \in {<<>>, <<PlainQuery>>}}
        \cup {Without(b, "queries") : b \in RunBases} \cup Malformed

RunSpikes ==
    {BusyPeriod, <<Without(SnapshotOf(2, 3), "queries")>>, <<SnapshotOf(4, 6)>>,
     <<Without(BusySnapshot, "load_avg_15m")>>}

Init ==
    \E n \in 0..MaxSnapshots :
        \E normal \in [1..n -> RunSnapshots], spike \in RunSpikes :
            \/ Start("analyze_pg_spike", AnalyzeInput(normal, spike))
            \/ \E pg01_normal \in {BusyPeriod, <<SnapshotOf(0, 3)>>} :
                   Start("compare_leader_replica",
                         LRInput(normal, spike, pg01_normal, BusyPeriod))

Spec == Init /\ [][Next]_vars

(***************************************************************************)
(* SpecExtract: one rich period per run, whose observations differ in      *)
(* duration (none, 10, 11) and in wait event type (none, "Lock", "lock").  *)
(***************************************************************************)
ClassKinds ==
    {[query_duration_sec |-> d, wait_event_type |-> t] : d \in {10, 11},
                                                         t \in {"Lock", "lock"}}
        \cup {[query_duration_sec |-> d] : d \in {10, 11}}
        \cup {[wait_event_type |-> t] : t \in {"Lock", "lock"}}
        \cup {[wait_event |-> "tuple"]}

InitExtract ==
    \E n \in 1..MaxSnapshots, o \in 0..MaxObs :
        \E counts \in [1..n -> 0..o], absent \in [1..n -> BOOLEAN],
           obs \in [1..o -> ClassKinds] :
            /\ Splits(counts, absent, o)
            /\ LET normal == PeriodFrom([i \in 1..n |-> SnapshotOf(2, 3)], counts, obs,
                                        absent)
               IN  \/ Start("analyze_pg_spike", AnalyzeInput(normal, BusyPeriod))
                   \/ Start("compare_leader_replica",
                            LRInput(normal, BusyPeriod, BusyPeriod, BusyPeriod))

SpecExtract == InitExtract /\ [][Next]_vars

(***************************************************************************)
(* What the claims speak of, read off the input files                      *)
(***************************************************************************)
FileNames == DOMAIN files

\* the summary extract_metrics returned for file f, if it returned one
HasSummary(f) == metrics[f] # Unset /\ ~IsNone(metrics[f][1])

Summary(f) == metrics[f][1]

TotalQueries(f) ==
    IF prog = "analyze_pg_spike" THEN Summary(f).total_queries_observed
    ELSE Summary(f).total_queries

QueryCount(snapshot) == IF "queries" \in DOMAIN snapshot THEN Len(snapshot.queries) ELSE 0

RawObservations(f) ==
    Flatten([i \in DOMAIN files[f] |->
                IF "queries" \in DOMAIN files[f][i] THEN files[f][i].queries ELSE <<>>])

DurationOver(query, limit) ==
    "query_duration_sec" \in DOMAIN query /\ query.query_duration_sec > limit

TypeIs(query, type) ==
    "wait_event_type" \in DOMAIN query /\ query.wait_event_type = type

\* C1: the total query count of a summary is the sum over the period's
\* snapshots of the number of observations of each snapshot, a snapshot
\* without 'queries' counting 0.
C1_TotalIsSumOfSnapshotCounts ==
    \A f \in FileNames :
        HasSummary(f) =>
            TotalQueries(f) = SumSeq([i \in DOMAIN files[f] |-> QueryCount(files[f][i])])

C1_Witness ==
    \E f \in FileNames :
        /\ HasSummary(f)
        /\ Len(files[f]) >= 2
        /\ \E i, j \in DOMAIN files[f] :
              /\ "queries" \notin DOMAIN files[f][i]
              /\ QueryCount(files[f][j]) >= 2
        /\ TotalQueries(f) >= 2

\* the summary of f is as extract_metrics returned it: compare_metrics, which
\* re-orders the long queries of the spike summary, has not run on it
AsExtracted(f) == HasSummary(f) /\ ~(f = "spike" /\ pc.at \in {"write", "done"})

\* C6: the long queries of a summary are, in traversal order, the
\* observations whose query_duration_sec is present and > 10, one entry each.
C6_LongIffOverTen ==
    \A f \in FileNames :
        AsExtracted(f) =>
            LET long == SelectSeq(RawObservations(f), LAMBDA q : DurationOver(q, 10))
                got == Summary(f).long_queries
            IN  /\ Len(got) = Len(long)
                /\ \A i \in DOMAIN got :
                      /\ got[i].duration = long[i].query_duration_sec
                      /\ got[i].wait_type = Get(long[i], "wait_event_type", "unknown")

\* a summary of two observations, one of exactly 10 seconds that is not listed
\* and one over 10 seconds that is
C6_Witness ==
    \E f \in FileNames :
        /\ AsExtracted(f)
        /\ Len(Summary(f).long_queries) = 1
        /\ Len(RawObservations(f)) = 2
        /\ \E j \in DOMAIN RawObservations(f) :
              /\ "query_duration_sec" \in DOMAIN RawObservations(f)[j]
              /\ RawObservations(f)[j].query_duration_sec = 10

\* C7: the lock waits of a summary are, in traversal order, the observations
\* whose wait_event_type is exactly "Lock", and their number is the count of
\* "Lock" in the wait-event-type frequency mapping.
C7_LockIffExactlyLock ==
    \A f \in FileNames :
        HasSummary(f) =>
            LET locks == SelectSeq(RawObservations(f), LAMBDA q : TypeIs(q, "Lock"))
                got == Summary(f).lock_waits
                types == Summary(f).wait_event_types
            IN  /\ Len(got) = Len(locks)
                /\ \A i \in DOMAIN got :
                      got[i].duration = Get(locks[i], "query_duration_sec", 0)
                /\ Len(got) = IF "Lock" \in Keys(types) THEN CountOf(types, "Lock") ELSE 0

\* a summary with a "lock" and a typeless observation that are no lock waits,
\* and an observation that is both a long query and a lock wait
C7_Witness ==
    \E f \in FileNames :
        /\ HasSummary(f)
        /\ Len(Summary(f).lock_waits) = 1
        /\ Len(Summary(f).long_queries) = 1
        /\ \E i \in DOMAIN RawObservations(f) :
              TypeIs(RawObservations(f)[i], "Lock") /\ DurationOver(RawObservations(f)[i], 10)
        /\ \E i \in DOMAIN RawObservations(f) : TypeIs(RawObservations(f)[i], "lock")

(***************************************************************************)
(* SpecFindings: two one-snapshot periods whose observations are plain,    *)
(* long or lock waits of two applications, under four spike loads.         *)
(***************************************************************************)
FindingKinds ==
    {[application_name |-> "svc-a"],
     [application_name |-> "svc-a", query_duration_sec |-> 11],
     [application_name |-> "svc-a", wait_event_type |-> "Lock", wait_event |-> "tuple"],
     [application_name |-> "svc-a", query_duration_sec |-> 11,
      wait_event_type |-> "Lock", wait_event |-> "relation"],
     [application_name |-> "svc-b"],
     [application_name |-> "svc-b", query_duration_sec |-> 15]}

SpikeLoads == {8, 10, 11, 12}

OnePeriod(load, obs) == <<[SnapshotOf(load, 3) EXCEPT !.queries = obs]>>

InitFindings ==
    \E o1 \in 0..(MaxObs + 1), o2 \in 0..(MaxObs + 1) :
        /\ o1 + o2 <= MaxObs + 1
        /\ \E obs1 \in [1..o1 -> FindingKinds], obs2 \in [1..o2 -> FindingKinds],
              load \in SpikeLoads :
               \/ Start("analyze_pg_spike",
                        AnalyzeInput(OnePeriod(10, obs1), OnePeriod(load, obs2)))
               \/ /\ o1 + o2 <= 1
                  /\ Start("compare_leader_replica",
                           LRInput(OnePeriod(10, obs1), OnePeriod(load, obs2),
                                   BusyPeriod, BusyPeriod))

SpecFindings == InitFindings /\ [][Next]_vars

(***************************************************************************)
(* SpecSets: two one-snapshot periods whose observations differ in their   *)
(* application or in their preview, and the periods of WidePeriod, which   *)
(* counts TopNewApps + 1 applications, the i-th of them i times.           *)
(***************************************************************************)
SetKinds ==
    {[application_name |-> "svc-a"], [application_name |-> "svc-b"],
     [wait_event |-> "tuple"],
     [query_preview |-> <<"a">>], [query_preview |-> <<" ", "a", "\t">>],
     [query_preview |-> <<"b", " ", " ", "c">>]}

WideApps ==
    <<"app01", "app02", "app03", "app04", "app05", "app06", "app07", "app08",
      "app09", "app10", "app11", "app12", "app13", "app14", "app15", "app16">>

WidePeriod ==
    OnePeriod(2, Flatten([i \in DOMAIN WideApps |->
                             [j \in 1..i |-> [application_name |-> WideApps[i]]]]))

InitSets ==
    \/ \E o1 \in 0..(MaxObs + 1), o2 \in 0..(MaxObs + 1) :
           /\ o1 + o2 <= MaxObs + 1
           /\ \E obs1 \in [1..o1 -> SetKinds], obs2 \in [1..o2 -> SetKinds] :
                  \/ Start("analyze_pg_spike",
                           AnalyzeInput(OnePeriod(2, obs1), OnePeriod(2, obs2)))
                  \/ Start("compare_leader_replica",
                           LRInput(OnePeriod(2, obs1), OnePeriod(2, obs2),
                                   BusyPeriod, BusyPeriod))
    \/ \E pair \in {<<BusyPeriod, WidePeriod>>, <<WidePeriod, BusyPeriod>>} :
           \/ Start("analyze_pg_spike", AnalyzeInput(pair[1], pair[2]))
           \/ Start("compare_leader_replica",
                    LRInput(pair[1], pair[2], BusyPeriod, BusyPeriod))

SpecSets == InitSets /\ [][Next]_vars

(***************************************************************************)
(* Claims about the comparison                                             *)
(***************************************************************************)
Servers == DOMAIN report

HasReport(sv) == report[sv] # Unset

Report(sv) == report[sv][1]

RawMean(f, k) == Mean([i \in DOMAIN files[f] |-> files[f][i][k]])

RawDurations(f) ==
    [i \in DOMAIN RawObservations(f) |->
        IF "query_duration_sec" \in DOMAIN RawObservations(f)[i]
        THEN RawObservations(f)[i].query_duration_sec ELSE 0]

\* (variant - baseline) / baseline * 100, and 0 for a baseline of 0
PercentChange(baseline, variant) ==
    IF baseline = RatZero THEN RatZero
    ELSE RatTimes(RatDiv(RatSub(variant, baseline), baseline), 100)

\* compare_metrics or compare_changes has run on the two summaries of sv
Compared(sv) ==
    /\ HasSummary(NormalOf(sv)) /\ HasSummary(SpikeOf(sv))
    /\ \/ HasReport(sv)
       \/ /\ pc = Failed
          /\ \A f \in FileNames : metrics[f] # Unset
          /\ \A other \in Servers \ {sv} : HasReport(other) \/ other = "pg01"

\* C3: once the two summaries of a server are compared, the percentage
\* changes of the mean 1-minute load, of the mean active-query count and (where
\* the analyzer reports it) of the mean query duration are
\* (variant - baseline) / baseline * 100, and 0 when the baseline is 0.
C3_PercentChange ==
    \A sv \in Servers :
        Compared(sv) =>
            /\ HasReport(sv)
            /\ Report(sv).load_pct =
                  PercentChange(RawMean(NormalOf(sv), "load_avg_1m"),
                                RawMean(SpikeOf(sv), "load_avg_1m"))
            /\ Report(sv).query_pct =
                  PercentChange(RawMean(NormalOf(sv), "active_query_count"),
                                RawMean(SpikeOf(sv), "active_query_count"))
            /\ (prog = "analyze_pg_spike" /\ Report(sv).duration # <<>>) =>
                  Report(sv).duration[1].duration_pct =
                      PercentChange(Mean(RawDurations(NormalOf(sv))),
                                    Mean(RawDurations(SpikeOf(sv))))

WellFormed(f) ==
    /\ files[f] # <<>>
    /\ \A i \in DOMAIN files[f] : \A k \in Range(RequiredFields) : k \in DOMAIN files[f][i]

Degenerate(sv) ==
    \/ RawMean(NormalOf(sv), "load_avg_1m") = RatZero
    \/ RawMean(NormalOf(sv), "active_query_count") = RatZero
    \/ RawObservations(NormalOf(sv)) = <<>>
    \/ RawObservations(SpikeOf(sv)) = <<>>

\* C4: a run over non-empty, well-formed periods of which one baseline has a
\* mean 1-minute load of 0 or a mean active-query count of 0, or of which one
\* period has no observation, raises nothing.
C4_DegenerateNeverHalts ==
    ((\A f \in FileNames : WellFormed(f)) /\ (\E sv \in Servers : Degenerate(sv)))
        => err = "none"

MalformedFile(f) ==
    \E i \in DOMAIN files[f] : \E k \in Range(RequiredFields) : k \notin DOMAIN files[f][i]

\* C5: when a snapshot of an input period lacks a required numeric field, the
\* extraction of that period returns no summary, the run never gets past the
\* extractions and the output file is never written.
C5_MalformedHaltsBeforeWrite ==
    \A f \in FileNames :
        MalformedFile(f) =>
            /\ metrics[f] = Unset
            /\ pc.at \in {"load", "extract", "failed"}
            /\ output = Unset

\* C2: the three signature sets of the report are the intersection and the two
\* differences of the summaries' signature sets; they are pairwise disjoint
\* and their sizes add up to the size of the union.
C2_SignatureAlgebra ==
    ("db" \in Servers /\ HasReport("db")) =>
        LET B == Summary("normal").query_signatures
            V == Summary("spike").query_signatures
            r == Report("db")
        IN  /\ r.both = B \cap V
            /\ r.only_in_normal = B \ V
            /\ r.only_in_spike = V \ B
            /\ r.both \cap r.only_in_normal = {}
            /\ r.both \cap r.only_in_spike = {}
            /\ r.only_in_normal \cap r.only_in_spike = {}
            /\ Cardinality(r.both) + Cardinality(r.only_in_normal)
                  + Cardinality(r.only_in_spike) = Cardinality(B \cup V)

C2_Witness ==
    /\ "db" \in Servers
    /\ HasReport("db")
    /\ Report("db").both # {}
    /\ Report("db").only_in_spike # {}
    /\ Summary("normal").query_signatures # Summary("spike").query_signatures

RawCount(f, Test(_)) == Len(SelectSeq(RawObservations(f), Test))

RawApps(f) ==
    {IF "application_name" \in DOMAIN RawObservations(f)[i]
     THEN RawObservations(f)[i].application_name ELSE "unknown" :
        i \in DOMAIN RawObservations(f)}

RawAppCount(f, app) ==
    RawCount(f, LAMBDA q : IF "application_name" \in DOMAIN q
                           THEN q.application_name = app ELSE app = "unknown")

RawLong(f) == RawCount(f, LAMBDA q : DurationOver(q, 10))

RawLocks(f) == RawCount(f, LAMBDA q : TypeIs(q, "Lock"))

\* |(variant - baseline) / baseline * 100| > 10, the change being 0 for a
\* baseline of 0
RawLoadShift ==
    LET b == RawMean("normal", "load_avg_1m")
        v == RawMean("spike", "load_avg_1m")
        d == RatSub(v, b)
    IN  b # RatZero /\ Abs(d[1]) * 100 * b[2] > 10 * b[1] * d[2]

\* the rules whose condition holds, in the order of their declaration
RulesThatHold ==
    (IF 10 * RawLong("spike") > 15 * RawLong("normal") THEN <<"long_queries">> ELSE <<>>)
        \o (IF 10 * RawLocks("spike") > 12 * RawLocks("normal")
            THEN <<"lock_waits">> ELSE <<>>)
        \o (IF RawLoadShift THEN <<"load">> ELSE <<>>)
        \o (IF RawApps("spike") \ RawApps("normal") # {} THEN <<"new_apps">> ELSE <<>>)
        \o (IF RawLong("spike") >= 1 THEN <<"culprit">> ELSE <<>>)

FindingRules == [i \in DOMAIN Report("db").findings |-> Report("db").findings[i].rule]

\* C8: the findings are, in the order of the rules, one finding for each rule
\* whose condition holds and none for any other rule; the single finding
\* 'no significant differences' is there exactly when no condition holds.
C8_FindingsFollowRules ==
    ("db" \in Servers /\ HasReport("db")) =>
        FindingRules = IF RulesThatHold # <<>> THEN RulesThatHold ELSE <<"none">>

\* the long-query and the load rule fire, the lock rule does not although the
\* baseline has a lock wait
C8_Witness ==
    /\ "db" \in Servers
    /\ HasReport("db")
    /\ FindingRules = <<"long_queries", "load", "culprit">>
    /\ RawLocks("normal") >= 1
    /\ RawLong("normal") >= 1

IdenticalLoads ==
    \A k \in {"load_avg_1m", "load_avg_5m", "load_avg_15m"} :
        RawMean("normal", k) = RawMean("spike", k)

Quiet ==
    /\ RawLong("normal") = 0 /\ RawLong("spike") = 0
    /\ RawLocks("normal") = 0 /\ RawLocks("spike") = 0
    /\ IdenticalLoads

\* C9 as claimed: with no long query, no lock wait and identical load averages
\* in both periods, the only finding is 'no significant differences'.
C9_QuietMeansNoFinding ==
    ("db" \in Servers /\ HasReport("db") /\ Quiet) => FindingRules = <<"none">>

\* C9, amended: with no long query, no lock wait, identical load averages in
\* both periods and no application that only the spike period counts, the
\* only finding is 'no significant differences'.
C9_QuietSameAppsMeansNoFinding ==
    ("db" \in Servers /\ HasReport("db") /\ Quiet
        /\ RawApps("spike") \subseteq RawApps("normal"))
        => FindingRules = <<"none">>

C9_Witness ==
    /\ "db" \in Servers
    /\ HasReport("db")
    /\ Quiet
    /\ RawApps("spike") \subseteq RawApps("normal")
    /\ RawApps("spike") # {}
    /\ RawApps("spike") # RawApps("normal")
    /\ FindingRules = <<"none">>

NewList(sv) ==
    IF prog = "analyze_pg_spike" THEN Report(sv).spike_app_counts
    ELSE Report(sv).new_app_counts

GoneList(sv) ==
    IF prog = "analyze_pg_spike" THEN Report(sv).normal_app_counts
    ELSE Report(sv).disappeared_counts

\* the applications that file f counts and file g does not, with their counts
\* in f
OnlyIn(f, g) ==
    {[app |-> a, count |-> RawAppCount(f, a)] : a \in RawApps(f) \ RawApps(g)}

NonIncreasing(list) ==
    \A i, j \in DOMAIN list : i < j => list[i].count >= list[j].count

\* C10 as claimed: the applications listed as newly appeared (disappeared) are
\* exactly those that only the spike (normal) period counts, each with its
\* count in that period, by non-increasing count.
C10_AllListed ==
    \A sv \in Servers :
        HasReport(sv) =>
            /\ Range(NewList(sv)) = OnlyIn(SpikeOf(sv), NormalOf(sv))
            /\ Range(GoneList(sv)) = OnlyIn(NormalOf(sv), SpikeOf(sv))
            /\ NonIncreasing(NewList(sv))
            /\ NonIncreasing(GoneList(sv))

\* list holds the n first of an arrangement of the entries all by
\* non-increasing count: n distinct entries, or all of them if fewer
TopOf(list, all, n) ==
    /\ Range(list) \subseteq all
    /\ Len(list) = Min2(n, Cardinality(all))
    /\ Cardinality(Range(list)) = Len(list)
    /\ NonIncreasing(list)
    /\ \A e \in all \ Range(list) : \A i \in DOMAIN list : list[i].count >= e.count

\* C10, amended: the applications listed as newly appeared are, of those that
\* only the spike period counts, the 15 of highest count (all of them when
\* they are at most 15), each with its count in the spike period, by
\* non-increasing count; likewise the disappeared ones, of those that only the
\* normal period counts, the 10 of highest count.
C10_TopListed ==
    \A sv \in Servers :
        HasReport(sv) =>
            /\ TopOf(NewList(sv), OnlyIn(SpikeOf(sv), NormalOf(sv)), 15)
            /\ TopOf(GoneList(sv), OnlyIn(NormalOf(sv), SpikeOf(sv)), 10)

\* more applications appeared than are listed
C10_Witness ==
    \E sv \in Servers :
        /\ HasReport(sv)
        /\ Len(NewList(sv)) = 15
        /\ Cardinality(OnlyIn(SpikeOf(sv), NormalOf(sv))) = 16
        /\ GoneList(sv) = <<[app |-> "svc-a", count |-> 1]>>

(***************************************************************************)
(* SpecSpike: runs whose spike period is rich in long queries and lock     *)
(* waits: observations that differ in duration (5, 11, 12), application    *)
(* and lock category; the period ManyLong of TopLongQueries + 1 long       *)
(* queries, and the period WideLocks whose 'tuple' lock waits come from    *)
(* TopLockApps + 1 applications, the i-th of them i times.                 *)
(***************************************************************************)
SpikeKinds ==
    {[query_duration_sec |-> 12, application_name |-> "svc-a"],
     [query_duration_sec |-> 12, application_name |-> "svc-b"],
     [query_duration_sec |-> 11, application_name |-> "svc-a",
      wait_event_type |-> "Lock", wait_event |-> "tuple"],
     [query_duration_sec |-> 11, application_name |-> "svc-b",
      wait_event_type |-> "Lock", wait_event |-> "tuple"],
     [query_duration_sec |-> 5, application_name |-> "svc-a",
      wait_event_type |-> "Lock", wait_event |-> "relation"],
     [query_duration_sec |-> 5, application_name |-> "svc-b",
      wait_event_type |-> "Lock", wait_event |-> "advisory"],
     [query_duration_sec |-> 12, wait_event_type |-> "Lock", wait_event |-> "tuple"],
     [query_duration_sec |-> 5, application_name |-> "svc-a", wait_event |-> "tuple"]}

ManyWaits == <<"w01", "w02", "w03", "w04", "w05", "w06", "w07", "w08", "w09", "w10", "w11">>

\* eleven long queries of 11, 12 and 13 seconds, each with a wait event of
\* its own; the second and the fifth are of svc-b, the others of svc-a
ManyLong ==
    LET obs == [i \in DOMAIN ManyWaits |->
                   [query_duration_sec |-> 11 + (i % 3), wait_event |-> ManyWaits[i],
                    application_name |-> IF i \in {2, 5} THEN "svc-b" ELSE "svc-a",
                    query_preview |-> <<"q">>]]
    IN  <<[SnapshotOf(2, 3) EXCEPT !.queries = SubSeq(obs, 1, 6)],
          [SnapshotOf(2, 3) EXCEPT !.queries = SubSeq(obs, 7, Len(obs))]>>

WideLocks ==
    OnePeriod(2, Flatten([i \in 1..(TopLockApps + 1) |->
                             [j \in 1..i |->
                                 [application_name |-> WideApps[i],
                                  wait_event_type |-> "Lock", wait_event |-> "tuple"]]])
                     \o <<[application_name |-> "app01", wait_event_type |-> "Lock",
                           wait_event |-> "relation"],
                          [application_name |-> "app01", wait_event_type |-> "Lock",
                           wait_event |-> "advisory"]>>)

InitSpike ==
    \/ \E n \in 1..MaxSnapshots, o \in 0..MaxObs :
           \E counts \in [1..n -> 0..o], obs \in [1..o -> SpikeKinds] :
               /\ Splits(counts, [i \in 1..n |-> FALSE], o)
               /\ LET spike == PeriodFrom([i \in 1..n |-> SnapshotOf(2, 3)], counts, obs,
                                          [i \in 1..n |-> FALSE])
                  IN  \/ Start("analyze_pg_spike", AnalyzeInput(BusyPeriod, spike))
                      \/ Start("compare_leader_replica",
                               LRInput(BusyPeriod, spike, BusyPeriod, BusyPeriod))
    \/ \E spike \in {ManyLong, WideLocks} :
           \/ Start("analyze_pg_spike", AnalyzeInput(BusyPeriod, spike))
           \/ Start("compare_leader_replica",
                    LRInput(BusyPeriod, spike, BusyPeriod, BusyPeriod))

SpecSpike == InitSpike /\ [][Next]_vars

(***************************************************************************)
(* Claims about the spike period's lock waits and long queries             *)
(***************************************************************************)
InCategory(query, c) ==
    TypeIs(query, "Lock") /\ "wait_event" \in DOMAIN query /\ query.wait_event = c

RawAppOf(query) ==
    IF "application_name" \in DOMAIN query THEN query.application_name ELSE "unknown"

\* the lock waits of category c in file f
RawCategory(f, c) == SelectSeq(RawObservations(f), LAMBDA q : InCategory(q, c))

\* per application with a lock wait of category c in f: its number of such
\* lock waits and that number's share of the category, in percent
RawCategoryApps(f, c) ==
    LET locks == RawCategory(f, c)
    IN  {[app |-> a,
          count |-> Len(SelectSeq(locks, LAMBDA q : RawAppOf(q) = a)),
          pct |-> Rat(Len(SelectSeq(locks, LAMBDA q : RawAppOf(q) = a)) * 100, Len(locks))] :
            a \in {RawAppOf(locks[i]) : i \in DOMAIN locks}}

Categories == {"transactionid", "tuple", "relation"}

BreakdownOf(c) ==
    SelectSeq(Report("db").lock_types, LAMBDA entry : entry.lock_type = c)

\* C11 as claimed: every category with a lock wait in the spike period is
\* reported once, with each application that has a lock wait of the category,
\* its count and its percentage of the category; no other category is reported.
C11_AllAppsReported ==
    ("db" \in Servers /\ HasReport("db")) =>
        /\ \A i \in DOMAIN Report("db").lock_types :
              Report("db").lock_types[i].lock_type \in Categories
        /\ \A c \in Categories :
              IF RawCategory("spike", c) = <<>> THEN BreakdownOf(c) = <<>>
              ELSE /\ Len(BreakdownOf(c)) = 1
                   /\ Range(BreakdownOf(c)[1].apps) = RawCategoryApps("spike", c)
                   /\ Len(BreakdownOf(c)[1].apps)
                          = Cardinality(RawCategoryApps("spike", c))

\* C11, amended: every category with a lock wait in the spike period is
\* reported once, with the 5 applications of highest count among those that
\* have a lock wait of the category (all of them when at most 5), each with its
\* count and its percentage of the category, by non-increasing count; no other
\* category is reported.
C11_TopAppsReported ==
    ("db" \in Servers /\ HasReport("db")) =>
        /\ \A i \in DOMAIN Report("db").lock_types :
              Report("db").lock_types[i].lock_type \in Categories
        /\ \A c \in Categories :
              IF RawCategory("spike", c) = <<>> THEN BreakdownOf(c) = <<>>
              ELSE /\ Len(BreakdownOf(c)) = 1
                   /\ BreakdownOf(c)[1].occurrences = Len(RawCategory("spike", c))
                   /\ TopOf(BreakdownOf(c)[1].apps, RawCategoryApps("spike", c), 5)

\* a report whose 'tuple' category lists 5 of 6 applications, the first of
\* them with 6 of the 21 lock waits, and whose 'relation' category lists one
C11_Witness ==
    /\ "db" \in Servers /\ HasReport("db")
    /\ Cardinality(RawCategoryApps("spike", "tuple")) = 6
    /\ Len(BreakdownOf("tuple")[1].apps) = 5
    /\ BreakdownOf("tuple")[1].apps[1] = [app |-> "app06", count |-> 6, pct |-> Rat(600, 21)]
    /\ Len(BreakdownOf("relation")) = 1
    /\ BreakdownOf("transactionid") = <<>>

\* C13: the comparison leaves both summaries as they were: every step taken
\* from the comparison keeps every field of every summary, the order of the
\* spike summary's long queries included.
C13_CompareLeavesSummaries ==
    [][pc.at = "compare" => \A f \in FileNames : metrics'[f] = metrics[f]]_vars

\* the long queries of file f, in the order of the snapshots and observations
RawLongQueries(f) == SelectSeq(RawObservations(f), LAMBDA q : DurationOver(q, 10))

EntryOf(entry, query) ==
    /\ entry.duration = query.query_duration_sec
    /\ entry.app = RawAppOf(query)
    /\ entry.wait = Get(query, "wait_event", "unknown")
    /\ entry.wait_type = Get(query, "wait_event_type", "unknown")

LongShown == IF prog = "analyze_pg_spike" THEN 10 ELSE 5

\* C14: the long queries reported for the spike period are by non-increasing
\* duration; they are min(N, number extracted) of the extracted ones; those of
\* one duration are, in the extractor's order, the first of the extracted ones
\* of that duration, and a duration of which some are left out is no longer
\* than any reported one.
C14_StableDescendingTop ==
    \A sv \in Servers :
        HasReport(sv) =>
            LET got == Report(sv).long_queries
                ext == RawLongQueries(SpikeOf(sv))
                Of(list, d, Dur(_)) == SelectSeq(list, LAMBDA x : Dur(x) = d)
                gotOf(d) == Of(got, d, LAMBDA e : e.duration)
                extOf(d) == Of(ext, d, LAMBDA q : q.query_duration_sec)
            IN  /\ Len(got) = Min2(LongShown, Len(ext))
                /\ \A i, j \in DOMAIN got : i < j => got[i].duration >= got[j].duration
                /\ \A i \in DOMAIN got :
                      \E j \in DOMAIN ext : ext[j].query_duration_sec = got[i].duration
                /\ \A d \in {ext[j].query_duration_sec : j \in DOMAIN ext} :
                      /\ Len(gotOf(d)) <= Len(extOf(d))
                      /\ \A k \in DOMAIN gotOf(d) : EntryOf(gotOf(d)[k], extOf(d)[k])
                      /\ Len(gotOf(d)) < Len(extOf(d)) =>
                             \A i \in DOMAIN got : got[i].duration >= d

\* the report on ManyLong: of the eleven long queries the ten listed begin
\* with the four of 13 seconds in the order they were observed, and the last
\* observed of the three of 11 seconds is left out
C14_Witness ==
    /\ "db" \in Servers /\ HasReport("db")
    /\ files["spike"] = ManyLong
    /\ [i \in 1..10 |-> Report("db").long_queries[i].wait]
           = <<"w02", "w05", "w08", "w11", "w01", "w04", "w07", "w10", "w03", "w06">>

CulpritFindings ==
    SelectSeq(Report("db").findings, LAMBDA finding : finding.rule = "culprit")

\* the number of long queries of the spike period that come from application a
RawLongOf(a) == Len(SelectSeq(RawLongQueries("spike"), LAMBDA q : RawAppOf(q) = a))

\* C17: with a long query in the spike period there is one top-offender
\* finding; it names an application with the largest number of the spike
\* period's long queries and gives that number; without a long query there is
\* no top-offender finding.
C17_TopOffenderIsMode ==
    ("db" \in Servers /\ HasReport("db")) =>
        IF RawLongQueries("spike") = <<>> THEN CulpritFindings = <<>>
        ELSE /\ Len(CulpritFindings) = 1
             /\ CulpritFindings[1].count = RawLongOf(CulpritFindings[1].app)
             /\ \A a \in RawApps("spike") : RawLongOf(a) <= CulpritFindings[1].count

\* the report on ManyLong: svc-a has 9 of the 11 long queries and is named,
\* although the longest query is one of svc-b
C17_Witness ==
    /\ "db" \in Servers /\ HasReport("db")
    /\ files["spike"] = ManyLong
    /\ Report("db").long_queries[1].app = "svc-b"
    /\ CulpritFindings = <<[rule |-> "culprit", app |-> "svc-a", count |-> 9]>>

(***************************************************************************)
(* SpecFields: one rich period per run, whose observations differ in the   *)
(* key that names their user ('usename', 'username', none) and in their    *)
(* preview (none, empty, whitespace only, words).                          *)
(***************************************************************************)
UserKinds == {<<>>, [username |-> "alice"], [usename |-> "bob"]}

PreviewKinds ==
    {<<>>, [query_preview |-> <<>>], [query_preview |-> <<" ", "\t">>],
     [query_preview |-> <<"a", " ", " ", "b">>]}

\* the observation with the keys of both
Merge(u, v) ==
    [k \in DOMAIN u \cup DOMAIN v |-> IF k \in DOMAIN u THEN u[k] ELSE v[k]]

FieldKinds == {Merge(u, v) : u \in UserKinds, v \in PreviewKinds}

InitFields ==
    \E n \in 1..MaxSnapshots, o \in 0..MaxObs :
        \E counts \in [1..n -> 0..o], obs \in [1..o -> FieldKinds] :
            /\ Splits(counts, [i \in 1..n |-> FALSE], o)
            /\ LET normal == PeriodFrom([i \in 1..n |-> SnapshotOf(2, 3)], counts, obs,
                                        [i \in 1..n |-> FALSE])
               IN  \/ Start("analyze_pg_spike", AnalyzeInput(normal, BusyPeriod))
                   \/ /\ o <= 1
                      /\ Start("compare_leader_replica",
                               LRInput(normal, BusyPeriod, BusyPeriod, BusyPeriod))

SpecFields == InitFields /\ [][Next]_vars

(***************************************************************************)
(* Claims about the users and the previews of a period                     *)
(***************************************************************************)
\* the number of times the frequency mapping `counter` counts `key`
Counted(counter, key) == IF key \in Keys(counter) THEN CountOf(counter, key) ELSE 0

\* the users frequency mapping counts, per observation, the value of its
\* attribute `key`, or "unknown" without one, and its counts sum to the total
UsersCountedBy(f, key) ==
    LET obs == RawObservations(f)
        name(q) == IF key \in DOMAIN q THEN q[key] ELSE "unknown"
        users == Summary(f).users
    IN  /\ \A u \in Keys(users) \cup {name(obs[i]) : i \in DOMAIN obs} :
              Counted(users, u) = Len(SelectSeq(obs, LAMBDA q : name(q) = u))
        /\ SumSeq([i \in DOMAIN users |-> users[i].n]) = Summary(f).total_queries_observed

\* C12 as claimed: the users frequency mapping of a summary counts every
\* observation under the value of its `username` attribute, under "unknown"
\* without one, and its counts sum to the total query count.
C12_UsersByUsername ==
    \A f \in FileNames :
        (prog = "analyze_pg_spike" /\ HasSummary(f)) => UsersCountedBy(f, "username")

\* C12, amended: the users frequency mapping of a summary counts every
\* observation under the value of its `usename` attribute, under "unknown"
\* without one, and its counts sum to the total query count.
C12_UsersByUsename ==
    \A f \in FileNames :
        (prog = "analyze_pg_spike" /\ HasSummary(f)) => UsersCountedBy(f, "usename")

\* a summary of an observation of username 'alice' and one of usename 'bob':
\* 'bob' is counted once, 'alice' not at all, and "unknown" once
C12_Witness ==
    /\ prog = "analyze_pg_spike" /\ HasSummary("normal")
    /\ \E i, j \in DOMAIN RawObservations("normal") :
          /\ "username" \in DOMAIN RawObservations("normal")[i]
          /\ "usename" \in DOMAIN RawObservations("normal")[j]
    /\ Counted(Summary("normal").users, "bob") = 1
    /\ Counted(Summary("normal").users, "alice") = 0
    /\ Counted(Summary("normal").users, "unknown") = 1

NonEmptyPreview(query) == "query_preview" \in DOMAIN query /\ query.query_preview # <<>>

\* the first 200 characters of the preview, runs of whitespace collapsed
SignatureOf(query) == Join(Split(Take(query.query_preview, 200)))

\* the first 15 whitespace-delimited tokens of the preview
PatternOf(query) == Join(Take(Split(query.query_preview), 15))

\* C15: the signature set of a summary holds the signatures of exactly the
\* observations with a non-empty preview, one made only of whitespace
\* included, and the pattern frequency mapping counts the pattern of each of
\* these observations and of no other.
C15_SignatureAndPatternIffPreview ==
    \A f \in FileNames :
        (prog = "analyze_pg_spike" /\ HasSummary(f)) =>
            LET with == SelectSeq(RawObservations(f), NonEmptyPreview)
                patterns == Summary(f).query_patterns
            IN  /\ Summary(f).query_signatures = {SignatureOf(with[i]) : i \in DOMAIN with}
                /\ \A pattern \in Keys(patterns) \cup {PatternOf(with[i]) : i \in DOMAIN with} :
                      Counted(patterns, pattern)
                          = Len(SelectSeq(with, LAMBDA q : PatternOf(q) = pattern))

(***************************************************************************)
(* The two extractors, one against the other                               *)
(***************************************************************************)
\* what the other program's extract_metrics does with the period of file f
OtherExtract(f) ==
    IF prog = "analyze_pg_spike" THEN lr_extract_metrics(files[f])
    ELSE extract_metrics(files[f])

GivesSummary(r) == r.exc = "none" /\ ~IsNone(r.val)

\* the run has stopped in the extraction of file f
FailedExtracting(f) ==
    /\ pc = Failed
    /\ metrics[f] = Unset
    /\ \E i \in DOMAIN FileOrder(prog) :
          /\ FileOrder(prog)[i] = f
          /\ \A j \in 1..(i - 1) : metrics[FileOrder(prog)[j]] # Unset

SameEntries(single, pair, fields) ==
    /\ Len(single) = Len(pair)
    /\ \A i \in DOMAIN single : \A k \in fields : single[i][k] = pair[i][k]

\* a summary of analyze_pg_spike and one of compare_leader_replica agree
Agree(single, pair) ==
    /\ single.snapshot_count = pair.snapshot_count
    /\ single.load["1m"].avg = pair.load_avg
    /\ single.active_queries.avg = pair.active_queries_avg
    /\ single.total_queries_observed = pair.total_queries
    /\ Range(single.wait_events) = Range(pair.wait_events)
    /\ Range(single.wait_event_types) = Range(pair.wait_event_types)
    /\ Range(single.applications) = Range(pair.applications)
    /\ SameEntries(single.long_queries, pair.long_queries,
                   {"duration", "app", "wait", "wait_type"})
    /\ SameEntries(single.lock_waits, pair.lock_waits, {"duration", "app", "wait"})

\* C16: on every period the two extractors both fail or both give a summary,
\* and the two summaries agree on the snapshot count, the mean 1-minute load,
\* the mean active-query count, the total query count, the three frequency
\* mappings, the long queries and the lock waits.
C16_ExtractorsAgree ==
    \A f \in FileNames :
        /\ FailedExtracting(f) => ~GivesSummary(OtherExtract(f))
        /\ (metrics[f] # Unset /\ IsNone(metrics[f][1])) => ~GivesSummary(OtherExtract(f))
        /\ AsExtracted(f) =>
              /\ GivesSummary(OtherExtract(f))
              /\ IF prog = "analyze_pg_spike"
                 THEN Agree(Summary(f), OtherExtract(f).val)
                 ELSE Agree(OtherExtract(f).val, Summary(f))
====
